---- MODULE Spec2Model ----
(***************************************************************************)
(* A state-machine model of the MCP rules engine wrapper                   *)
(* (src/mcp_rules_engine.py with the example catalogue src/actions.py).    *)
(*                                                                         *)
(* Strings that the code inspects character by character (action           *)
(* specifications) are sequences over Chars, one character per token:      *)
(*   "."  the separator                                                    *)
(*   "N"  the identifier NotificationActions (a class of actions.py)       *)
(*   "s"  the identifier send_email (a method of that class)               *)
(*   "e"  the identifier __eq__ (an attribute every Python object has)     *)
(* JSON values are tagged records [t, n]: n is the truth value of a bool,  *)
(* the value of a number and the length of a string, sequence or mapping.  *)
(* Wall-clock timings (execution_time_ms) are left out.                    *)
(***************************************************************************)
EXTENDS Integers, Sequences, FiniteSets, TLC

\* ------------------------------------------------------------------ bounds
MaxRules == 2
MaxIdLen == 3
MaxActions == 2

\* ------------------------------------------------------------ Python values
None == "None"

Null == [t |-> "null", n |-> 0]
Values ==
    {Null} \cup [t : {"bool", "num", "str", "seq", "map"}, n : {0, 1}]

\* bool(result), lines 92-93: Python truthiness of a JSON value
PyBool_OnlyTrue(v) == v.t = "bool" /\ v.n = 1
PyBool(v) ==
    CASE v.t = "null" -> FALSE
      [] v.t = "bool" -> v.n = 1
      [] v.t = "num" -> v.n # 0
      [] OTHER -> v.n > 0

\* A data context: {} or {"x": v}
DataContexts == [has_x : {TRUE}, x : Values] \cup {[has_x |-> FALSE, x |-> Null]}
EmptyData == [has_x |-> FALSE, x |-> Null]
BatchData ==
    { EmptyData,
      [has_x |-> TRUE, x |-> [t |-> "num", n |-> 1]],
      [has_x |-> TRUE, x |-> [t |-> "num", n |-> 0]],
      [has_x |-> TRUE, x |-> [t |-> "str", n |-> 1]] }

\* ------------------------------------------------------ expression evaluator
\* Rule expressions: {"var": "x"}, {">": [{"var": "x"}, 0]}, {"nope": []}
Exprs == {"var_x", "gt_x_0", "unknown_op"}

Lookup(d) == IF d.has_x THEN d.x ELSE Null

\* json_logic.jsonLogic(rule, data): a value, or an exception with a message
jsonLogic(rule, d) ==
    CASE rule = "var_x" ->
           [raised |-> FALSE, value |-> Lookup(d), msg |-> None]
      [] rule = "gt_x_0" ->
           LET v == Lookup(d) IN
           IF v.t \in {"num", "bool"}
             THEN [raised |-> FALSE,
                   value |-> [t |-> "bool", n |-> IF v.n > 0 THEN 1 ELSE 0],
                   msg |-> None]
           ELSE IF v.t = "null"
             THEN [raised |-> FALSE, value |-> [t |-> "bool", n |-> 0], msg |-> None]
           ELSE [raised |-> TRUE, value |-> Null, msg |-> "could not convert operand"]
      [] OTHER ->
           [raised |-> TRUE, value |-> Null, msg |-> "Unrecognized operation"]

\* RulesEngine.evaluate_rule, lines 84-97
evaluate_rule(rule, d) ==
    LET r == jsonLogic(rule, d) IN
    IF r.raised
      THEN [matched |-> FALSE, error |-> r.msg]
      ELSE [matched |-> PyBool(r.value), error |-> None]

\* RulesEngine.validate_rule, lines 75-82
engine_validate_rule(rule) ==
    LET r == jsonLogic(rule, EmptyData) IN
    IF r.raised
      THEN [rule_valid |-> FALSE, rule_error |-> r.msg]
      ELSE [rule_valid |-> TRUE, rule_error |-> None]

\* ------------------------------------------------------- action specifications
Chars == {".", "N", "s", "e"}
Sep == "."

StringsUpTo(n) == UNION {[1..k -> Chars] : k \in 0..n}
IdStrings == StringsUpTo(MaxIdLen)
ActionLists == UNION {[1..k -> IdStrings] : k \in 0..MaxActions}

\* '.' in action_spec, lines 154 and 304
HasSep(s) == \E k \in 1..Len(s) : s[k] = Sep

FirstSep(s) == CHOOSE k \in 1..Len(s) : s[k] = Sep /\ \A m \in 1..(k-1) : s[m] # Sep

\* action_spec.split('.'), lines 157 and 306
RECURSIVE Split(_)
Split(s) ==
    IF ~HasSep(s) THEN <<s>>
    ELSE LET k == FirstSep(s) IN
         <<SubSeq(s, 1, k-1)>> \o Split(SubSeq(s, k+1, Len(s)))

\* the test both parsers apply to an action specification, lines 154-159, 304-307
BadFormat(s) == ~HasSep(s) \/ Len(Split(s)) # 2

\* ------------------------------------------------------------ handler catalogue
\* attributes getattr finds on the actions module: its classes, and what every
\* module inherits from object (actions.py lines 15, 50, 87)
ActionClasses == {<<"N">>}
ModuleAttrs == ActionClasses \cup {<<"e">>}
\* the methods a class of actions.py declares (actions.py lines 18-47)
DeclaredHandlers(c) == IF c \in ActionClasses THEN {<<"s">>} ELSE {}
\* attributes getattr finds on an instance: the declared methods and what every
\* instance inherits from object
InstanceAttrs(c) == DeclaredHandlers(c) \cup {<<"e">>}

\* what a handler invocation action_method(data) at line 171 can do: return,
\* raise, raise ImportError, never return, or assign data["x"] = 0 in the
\* dictionary it was handed and return
HandlerBehaviours == {"return", "raise", "import_error", "hang", "mutate"}
BehavioursOf(method) ==
    IF method = <<"e">> THEN {"return"} ELSE HandlerBehaviours

\* the dictionary after a handler's data["x"] = 0
Mutated(d) == [has_x |-> TRUE, x |-> [t |-> "num", n |-> 0]]

\* ------------------------------------------------------------- action outcomes
Failure(spec, msg) ==
    [action |-> spec, success |-> FALSE, result |-> None, error |-> msg]
Success(spec, payload) ==
    [action |-> spec, success |-> TRUE, result |-> payload, error |-> None]

\* ActionExecutor.execute_action up to the handler call, lines 152-169 and
\* 180-197: the outcome decided without running a handler, or "invoke"
Resolve(spec, canImport) ==
    IF BadFormat(spec)
      THEN [kind |-> "outcome",
            outcome |-> Failure(spec, "Invalid action specification")]
    ELSE LET class_name == Split(spec)[1]
             method_name == Split(spec)[2] IN
      IF ~canImport
        THEN [kind |-> "outcome", outcome |-> Success(spec, "Mock execution")]
      ELSE IF class_name \notin ModuleAttrs
        THEN [kind |-> "outcome", outcome |-> Failure(spec, "AttributeError")]
      ELSE IF class_name \notin ActionClasses
        THEN [kind |-> "outcome", outcome |-> Failure(spec, "TypeError")]
      ELSE IF method_name \notin InstanceAttrs(class_name)
        THEN [kind |-> "outcome", outcome |-> Failure(spec, "AttributeError")]
      ELSE [kind |-> "invoke", outcome |-> Failure(spec, None)]

\* the outcome of a handler call that came back, lines 171-197
Completed(spec, behaviour) ==
    CASE behaviour = "return" /\ Split(spec)[2] = <<"e">> ->
           Success(spec, "NotImplemented")
      [] behaviour \in {"return", "mutate"} -> Success(spec, "payload")
      [] behaviour = "import_error" -> Success(spec, "Mock execution")
      [] OTHER -> Failure(spec, "handler raised")

\* ------------------------------------------------------------ rule definitions
Id_good == <<"N", ".", "s">>
Id_noSep == <<"N", "s">>
Id_noClass == <<"s", ".", "s">>
Id_noHandler == <<"N", ".", "N">>

RuleData(n, r, has, acts, ok) ==
    [name |-> n, rule |-> r, has_actions |-> has, actions |-> acts,
     well_formed |-> ok]

\* the rule dictionaries a caller passes in
RuleCatalogue ==
    { RuleData("a", "var_x", TRUE, <<Id_noSep, Id_good>>, TRUE),
      RuleData("b", "gt_x_0", TRUE, <<Id_noClass, Id_noHandler, Id_good>>, TRUE),
      RuleData("c", "unknown_op", TRUE, <<Id_good>>, TRUE),
      RuleData("d", "var_x", FALSE, <<>>, TRUE),
      RuleData("f", "gt_x_0", TRUE, <<>>, TRUE),
      RuleData("g", "var_x", TRUE, <<Id_good>>, FALSE) }

RuleLists == UNION {[1..k -> RuleCatalogue] : k \in 0..MaxRules}

\* RuleDefinition(**rule_data), lines 233 and 251
RuleDefinition(rd) ==
    [name |-> rd.name, rule |-> rd.rule, has_actions |-> rd.has_actions,
     actions |-> rd.actions]

\* the validation loop's action_errors, lines 302-307
RECURSIVE CollectErrors(_)
CollectErrors(actions) ==
    IF actions = <<>> THEN <<>>
    ELSE (IF BadFormat(Head(actions))
            THEN <<[msg |-> "Invalid action specification", action |-> Head(actions)]>>
            ELSE <<>>) \o CollectErrors(Tail(actions))

\* the validate_rule tool, lines 293-314
ValidateReport(rule, actions) ==
    LET v == engine_validate_rule(rule)
        errs == CollectErrors(actions) IN
    [rule_valid |-> v.rule_valid, rule_error |-> v.rule_error,
     actions_valid |-> Len(errs) = 0,
     action_errors_none |-> errs = <<>>, action_errors |-> errs]

\* ------------------------------------------------------------------- state
VARIABLES
    op,                \* the operation in progress, or "none"
    rules,             \* the rule dictionaries passed to a batch call
    rule_definitions,  \* the RuleDefinition objects built from them
    expr,              \* the rule passed to evaluate_rule / validate_rule
    data,              \* the data dictionary the call works on
    supplied,          \* its content when the caller passed it in
    importable,        \* whether "import actions" succeeds in this process
    pc,                \* "idle", "convert", "loop", "dispatch", "handler", "done", "raised"
    i,                 \* index of the rule the batch loop is at
    j,                 \* index of the action execute_actions is at
    results,           \* the batch call's results list
    seen,              \* the content of data at each rule's evaluation
    action_specs,      \* the list execute_actions was called with
    actions_executed,  \* the outcomes execute_actions has built so far
    current,           \* (matched, rule_error) of the rule being dispatched
    handler,           \* how the handler being run behaves, or "none"
    invoked,           \* every handler call made during this call, in order
    cancelled,         \* whether a cancellation reached the call, and when
    report,            \* what validate_rule returned
    single,            \* what evaluate_rule returned
    rule_cache,        \* RulesEngine.rule_cache
    module_cache,      \* ActionExecutor.module_cache
    reference          \* an earlier evaluate_rule call and what it returned

inputVars == <<op, rules, expr, data, supplied, importable>>
loopVars == <<rule_definitions, i, results, seen, current>>
dispatchVars == <<j, action_specs, actions_executed, handler, invoked>>
outVars == <<report, single>>
cacheVars == <<rule_cache, module_cache>>
vars == <<inputVars, loopVars, dispatchVars, outVars, cacheVars, pc, cancelled,
          reference>>

NoEvaluation == [matched |-> FALSE, error |-> None]
NoReport == ValidateReport("var_x", <<>>)
NotCancelled == [signalled |-> FALSE, started |-> 0]
NoReference ==
    [set |-> FALSE, expr |-> "var_x", data |-> EmptyData, result |-> NoEvaluation]

BatchOps == {"evaluate_ruleset", "execute_rule_actions"}

\* module load, lines 204-209: fresh engine and executor, no call in progress
Init ==
    /\ op = "none"
    /\ rules = <<>>
    /\ rule_definitions = <<>>
    /\ expr = "var_x"
    /\ data = EmptyData
    /\ supplied = EmptyData
    /\ importable \in BOOLEAN
    /\ pc = "idle"
    /\ i = 1
    /\ j = 1
    /\ results = <<>>
    /\ seen = <<>>
    /\ action_specs = <<>>
    /\ actions_executed = <<>>
    /\ current = NoEvaluation
    /\ handler = "none"
    /\ invoked = <<>>
    /\ cancelled = NotCancelled
    /\ report = NoReport
    /\ single = NoEvaluation
    /\ rule_cache = {}
    /\ module_cache = {}
    /\ reference = NoReference

Idle == pc = "idle"

\* what every call starts from
Fresh ==
    /\ rule_definitions' = <<>>
    /\ i' = 1
    /\ j' = 1
    /\ results' = <<>>
    /\ seen' = <<>>
    /\ action_specs' = <<>>
    /\ actions_executed' = <<>>
    /\ current' = NoEvaluation
    /\ handler' = "none"
    /\ invoked' = <<>>
    /\ cancelled' = NotCancelled

\* the evaluate_rule tool, were the engine to answer from rule_cache: one
\* entry, keyed by the rule alone, replaced on every miss
Call_evaluate_rule_Cached ==
    /\ Idle
    /\ \E r \in Exprs, d \in DataContexts :
         /\ op' = "evaluate_rule"
         /\ expr' = r
         /\ data' = d
         /\ supplied' = d
         /\ IF \E c \in rule_cache : c.rule = r
              THEN /\ single' = (CHOOSE c \in rule_cache : c.rule = r).result
                   /\ UNCHANGED rule_cache
              ELSE /\ single' = evaluate_rule(r, d)
                   /\ rule_cache' = {[rule |-> r, result |-> evaluate_rule(r, d)]}
    /\ Fresh
    /\ rules' = <<>>
    /\ report' = NoReport
    /\ pc' = "done"
    /\ UNCHANGED <<importable, module_cache, reference>>

\* the evaluate_rule tool, lines 212-223
Call_evaluate_rule ==
    /\ Idle
    /\ \E r \in Exprs, d \in DataContexts :
         /\ op' = "evaluate_rule"
         /\ expr' = r
         /\ data' = d
         /\ supplied' = d
         /\ single' = evaluate_rule(r, d)
    /\ Fresh
    /\ rules' = <<>>
    /\ report' = NoReport
    /\ pc' = "done"
    /\ UNCHANGED <<importable, cacheVars, reference>>

\* the validate_rule tool, lines 292-314
Call_validate_rule ==
    /\ Idle
    /\ \E r \in Exprs, acts \in ActionLists :
         /\ op' = "validate_rule"
         /\ expr' = r
         /\ action_specs' = acts
         /\ report' = ValidateReport(r, acts)
    /\ rule_definitions' = <<>>
    /\ i' = 1
    /\ j' = 1
    /\ results' = <<>>
    /\ seen' = <<>>
    /\ actions_executed' = <<>>
    /\ current' = NoEvaluation
    /\ handler' = "none"
    /\ invoked' = <<>>
    /\ cancelled' = NotCancelled
    /\ rules' = <<>>
    /\ data' = EmptyData
    /\ supplied' = EmptyData
    /\ single' = NoEvaluation
    /\ pc' = "done"
    /\ UNCHANGED <<importable, cacheVars, reference>>

\* the validate_rule tool called without actions (actions=None), lines 292-314
Call_validate_rule_NoActions ==
    /\ Idle
    /\ \E r \in Exprs :
         /\ expr' = r
         /\ report' = ValidateReport(r, <<>>)
    /\ op' = "validate_rule"
    /\ rules' = <<>>
    /\ data' = EmptyData
    /\ supplied' = EmptyData
    /\ Fresh
    /\ single' = NoEvaluation
    /\ pc' = "done"
    /\ UNCHANGED <<importable, cacheVars, reference>>

\* a batch tool is entered with its arguments, lines 227 and 245
CallBatch(o) ==
    /\ Idle
    /\ \E rs \in RuleLists, d \in BatchData :
         /\ rules' = rs
         /\ data' = d
         /\ supplied' = d
    /\ op' = o
    /\ expr' = "var_x"
    /\ Fresh
    /\ report' = NoReport
    /\ single' = NoEvaluation
    /\ pc' = "convert"
    /\ UNCHANGED <<importable, cacheVars, reference>>

Call_evaluate_ruleset == CallBatch("evaluate_ruleset")
Call_execute_rule_actions == CallBatch("execute_rule_actions")

\* ActionExecutor.execute_actions called on its own, lines 199-201
DispatchData == {EmptyData, [has_x |-> TRUE, x |-> [t |-> "num", n |-> 1]]}
Call_execute_actions ==
    /\ Idle
    /\ \E acts \in ActionLists, d \in DispatchData :
         /\ action_specs' = acts
         /\ data' = d
         /\ supplied' = d
    /\ op' = "execute_actions"
    /\ expr' = "var_x"
    /\ rules' = <<>>
    /\ rule_definitions' = <<>>
    /\ i' = 1
    /\ j' = 1
    /\ results' = <<>>
    /\ seen' = <<>>
    /\ actions_executed' = <<>>
    /\ current' = NoEvaluation
    /\ handler' = "none"
    /\ invoked' = <<>>
    /\ cancelled' = NotCancelled
    /\ report' = NoReport
    /\ single' = NoEvaluation
    /\ pc' = "dispatch"
    /\ UNCHANGED <<importable, cacheVars, reference>>

\* the conversion loop, lines 229-236 and 247-254: every dictionary becomes a
\* RuleDefinition, or the first malformed one raises ValueError
Convert ==
    /\ pc = "convert"
    /\ IF \E k \in 1..Len(rules) : ~rules[k].well_formed
         THEN /\ pc' = "raised"
              /\ UNCHANGED rule_definitions
         ELSE /\ pc' = "loop"
              /\ rule_definitions' = [k \in 1..Len(rules) |-> RuleDefinition(rules[k])]
    /\ UNCHANGED <<inputVars, i, results, seen, current, dispatchVars, outVars,
                   cacheVars, reference, cancelled>>

\* results.append(RuleEvaluationResult(...)), lines 109-114
AppendEvaluation_DropFailed(res, rule_def, ev) ==
    IF ev.error # None THEN res
    ELSE Append(res, [rule_name |-> rule_def.name, matched |-> ev.matched,
                      error |-> ev.error])
AppendEvaluation(res, rule_def, ev) ==
    Append(res, [rule_name |-> rule_def.name, matched |-> ev.matched,
                 error |-> ev.error])

\* results.append(RuleActionExecutionResult(...)), lines 270-276
AppendRuleActions(res, rule_def, ev, outcomes) ==
    Append(res, [rule_name |-> rule_def.name, matched |-> ev.matched,
                 actions_executed |-> outcomes, rule_error |-> ev.error])

\* if matched and rule_def.actions, line 266
ShouldDispatch_IgnoreMatch(ev, rule_def) ==
    rule_def.has_actions /\ rule_def.actions # <<>>
ShouldDispatch(ev, rule_def) ==
    ev.matched /\ rule_def.has_actions /\ rule_def.actions # <<>>

\* one iteration of RulesEngine.evaluate_ruleset's loop, lines 103-122
EvaluateOnly(o) ==
    /\ op = o
    /\ pc = "loop"
    /\ i <= Len(rule_definitions)
    /\ LET rule_def == rule_definitions[i]
           ev == evaluate_rule(rule_def.rule, data) IN
       results' = AppendEvaluation(results, rule_def, ev)
    /\ seen' = Append(seen, data)
    /\ i' = i + 1
    /\ UNCHANGED <<inputVars, rule_definitions, current, dispatchVars, outVars,
                   cacheVars, reference, pc, cancelled>>

\* one iteration of execute_rule_actions's loop up to the dispatch, lines 258-276
EvaluateAndAct(o) ==
    /\ op = o
    /\ pc = "loop"
    /\ i <= Len(rule_definitions)
    /\ LET rule_def == rule_definitions[i]
           ev == evaluate_rule(rule_def.rule, data) IN
       IF ShouldDispatch(ev, rule_def)
         THEN /\ pc' = "dispatch"
              /\ current' = ev
              /\ action_specs' = rule_def.actions
              /\ actions_executed' = <<>>
              /\ j' = 1
              /\ UNCHANGED <<results, i>>
         ELSE /\ results' = AppendRuleActions(results, rule_def, ev, <<>>)
              /\ i' = i + 1
              /\ UNCHANGED <<pc, current, action_specs, actions_executed, j>>
    /\ seen' = Append(seen, data)
    /\ UNCHANGED <<inputVars, rule_definitions, handler, invoked, outVars,
                   cacheVars, reference, cancelled>>

EvaluateRulesetStep_Dispatching == EvaluateAndAct("evaluate_ruleset")
EvaluateRulesetStep == EvaluateOnly("evaluate_ruleset")
ExecuteRuleActionsStep == EvaluateAndAct("execute_rule_actions")

\* ActionExecutor.execute_action for the next specification of the list,
\* lines 148-197, up to the point where the handler is running
ExecuteAction ==
    /\ pc = "dispatch"
    /\ j <= Len(action_specs)
    /\ LET spec == action_specs[j]
           r == Resolve(spec, importable) IN
       IF r.kind = "outcome"
         THEN /\ actions_executed' = Append(actions_executed, r.outcome)
              /\ j' = j + 1
              /\ UNCHANGED <<pc, handler, invoked>>
         ELSE /\ \E b \in BehavioursOf(Split(spec)[2]) :
                   /\ handler' = b
                   /\ invoked' = Append(invoked,
                        [rule |-> IF op \in BatchOps THEN i ELSE 0,
                         index |-> j, action |-> spec, data |-> data,
                         behaviour |-> b])
              /\ pc' = "handler"
              /\ UNCHANGED <<actions_executed, j>>
    /\ UNCHANGED <<inputVars, loopVars, action_specs, outVars, cacheVars, reference,
                   cancelled>>

\* the handler call of line 171 comes back: by returning, or by raising into
\* the except clauses of lines 180 and 190
HandlerCompletes ==
    /\ pc = "handler"
    /\ handler # "hang"
    /\ actions_executed' = Append(actions_executed,
                                  Completed(action_specs[j], handler))
    /\ j' = j + 1
    /\ data' = IF handler = "mutate" THEN Mutated(data) ELSE data
    /\ handler' = "none"
    /\ pc' = "dispatch"
    /\ UNCHANGED <<op, rules, expr, supplied, importable, loopVars, action_specs,
                   invoked, outVars, cacheVars, reference, cancelled>>

\* execute_actions returns to execute_rule_actions, which appends the rule's
\* result, lines 268-276
FinishRuleDispatch ==
    /\ pc = "dispatch"
    /\ op \in BatchOps
    /\ j > Len(action_specs)
    /\ results' = AppendRuleActions(results, rule_definitions[i], current,
                                    actions_executed)
    /\ i' = i + 1
    /\ current' = NoEvaluation
    /\ action_specs' = <<>>
    /\ actions_executed' = <<>>
    /\ j' = 1
    /\ pc' = "loop"
    /\ UNCHANGED <<inputVars, rule_definitions, seen, handler, invoked, outVars,
                   cacheVars, reference, cancelled>>

\* execute_actions returns its list to a direct caller, line 201
FinishExecuteActions ==
    /\ pc = "dispatch"
    /\ op = "execute_actions"
    /\ j > Len(action_specs)
    /\ results' = actions_executed
    /\ pc' = "done"
    /\ UNCHANGED <<inputVars, rule_definitions, i, seen, current, dispatchVars,
                   outVars, cacheVars, reference, cancelled>>

\* the batch loop is over and the results list is returned, lines 124/241, 289
Return ==
    /\ pc = "loop"
    /\ i > Len(rule_definitions)
    /\ pc' = "done"
    /\ UNCHANGED <<inputVars, loopVars, dispatchVars, outVars, cacheVars, reference,
                   cancelled>>

\* A cancellation reaches a batch call in progress. Neither loop handles one
\* (lines 103-122, 258-286): delivered as an exception outside the Exception
\* hierarchy it passes the except clauses of lines 115, 190 and 278 and ends
\* the call without a result; delivered to the transport's task it is not seen
\* by the synchronous loop, which runs on.
Cancel ==
    /\ op \in BatchOps
    /\ pc \in {"loop", "dispatch", "handler"}
    /\ ~cancelled.signalled
    /\ cancelled' = [signalled |-> TRUE,
                     started |-> IF pc = "loop" THEN i - 1 ELSE i]
    /\ \/ /\ pc' = "raised"
          /\ handler' = "none"
       \/ UNCHANGED <<pc, handler>>
    /\ UNCHANGED <<inputVars, loopVars, j, action_specs, actions_executed,
                   invoked, outVars, cacheVars, reference>>

\* the call is over (returned or raised) and the server waits for the next
\* request; the engine and the executor of lines 208-209 live on
NextRequest ==
    /\ pc \in {"done", "raised"}
    /\ op' = "none"
    /\ rules' = <<>>
    /\ expr' = "var_x"
    /\ data' = EmptyData
    /\ supplied' = EmptyData
    /\ Fresh
    /\ report' = NoReport
    /\ single' = NoEvaluation
    /\ pc' = "idle"
    /\ UNCHANGED <<importable, cacheVars, reference>>

\* An observer notes the evaluate_rule call that has just returned, to compare
\* later evaluations of the same rule and data with it.
Remember ==
    /\ pc = "done"
    /\ op = "evaluate_rule"
    /\ ~reference.set
    /\ reference' = [set |-> TRUE, expr |-> expr, data |-> supplied,
                     result |-> single]
    /\ UNCHANGED <<inputVars, loopVars, dispatchVars, outVars, cacheVars, pc,
                   cancelled>>

\* ----------------------------------------------------------- specifications
\* the statements the interpreter runs once a call has been entered
Step ==
    \/ Convert
    \/ EvaluateRulesetStep
    \/ ExecuteRuleActionsStep
    \/ ExecuteAction
    \/ HandlerCompletes
    \/ FinishRuleDispatch
    \/ Return

Next ==
    \/ Call_evaluate_rule
    \/ Call_evaluate_ruleset
    \/ Call_execute_rule_actions
    \/ Step
    \/ Cancel
    \/ NextRequest

\* the tools: evaluate_rule, evaluate_ruleset, execute_rule_actions
Spec == Init /\ [][Next]_vars

\* the same, with the interpreter always running the next statement
FairSpec == Init /\ [][Next]_vars /\ WF_vars(Step)

DispatchNext ==
    \/ Call_execute_actions
    \/ ExecuteAction
    \/ HandlerCompletes
    \/ FinishExecuteActions
    \/ NextRequest

\* ActionExecutor.execute_actions on its own
DispatchSpec == Init /\ [][DispatchNext]_vars

ValidateNext ==
    \/ Call_validate_rule
    \/ NextRequest

\* the validate_rule tool
ValidateSpec == Init /\ [][ValidateNext]_vars

EngineNext ==
    \/ Call_evaluate_rule
    \/ Call_validate_rule_NoActions
    \/ Call_evaluate_ruleset
    \/ Call_execute_rule_actions
    \/ Step
    \/ NextRequest
    \/ Remember

\* any sequence of calls on the shared engine and executor of lines 208-209,
\* one evaluate_rule call of it being remembered
EngineSpec == Init /\ [][EngineNext]_vars

TypeOK ==
    /\ pc \in {"idle", "convert", "loop", "dispatch", "handler", "done", "raised"}
    /\ handler \in HandlerBehaviours \cup {"none"}
    /\ i \in 1..(MaxRules + 1)
    /\ rule_cache = {}
    /\ module_cache = {}

\* ------------------------------------------------------------------ claims
Returned == pc = "done"

\* C1: a batch call that returns, returns exactly one outcome per input rule,
\* the k-th outcome carrying the k-th rule's name, whether or not evaluations
\* failed.
C1_OneOutcomePerRule ==
    (Returned /\ op \in BatchOps) =>
        /\ Len(results) = Len(rules)
        /\ \A k \in 1..Len(rules) : results[k].rule_name = rules[k].name

\* evaluate_ruleset returned two outcomes, the first of a failed evaluation
C1_Witness ==
    /\ Returned
    /\ op = "evaluate_ruleset"
    /\ Len(rules) = 2
    /\ Len(results) = 2
    /\ results[1].error # None
    /\ results[2].matched

\* the ActionId invariant: exactly one separator, both parts non-empty
WellFormedId(s) ==
    /\ Len(Split(s)) = 2
    /\ Split(s)[1] # <<>>
    /\ Split(s)[2] # <<>>

\* a well-formed id whose registry key is not registered, or whose handler
\* name is not a handler of that registry
Unregistered(s) ==
    /\ WellFormedId(s)
    /\ \/ Split(s)[1] \notin ActionClasses
       \/ Split(s)[2] \notin DeclaredHandlers(Split(s)[1])

HandlerRaisedAt(k) ==
    \E n \in 1..Len(invoked) :
        invoked[n].index = k /\ invoked[n].behaviour \in {"raise", "import_error"}

FailureOutcome(o) == ~o.success /\ o.error # None

\* C2: execute_actions returns one outcome per ActionId in input order, and an
\* ActionId that is malformed, unresolvable, or whose handler raised has a
\* failure outcome with a non-null error.
C2_DispatchTotal ==
    (Returned /\ op = "execute_actions") =>
        /\ Len(results) = Len(action_specs)
        /\ \A k \in 1..Len(action_specs) :
             /\ results[k].action = action_specs[k]
             /\ (~WellFormedId(action_specs[k]) \/ Unregistered(action_specs[k])
                   \/ HandlerRaisedAt(k)) => FailureOutcome(results[k])

\* what of C2 the code does keep: one outcome per ActionId, in input order
DispatchOrdered ==
    (Returned /\ op = "execute_actions") =>
        /\ Len(results) = Len(action_specs)
        /\ \A k \in 1..Len(action_specs) : results[k].action = action_specs[k]

\* the rule at position k matched the data it was evaluated against and
\* declares actions
Fires(k) ==
    LET r == jsonLogic(rules[k].rule, seen[k]) IN
    /\ ~r.raised
    /\ PyBool(r.value)
    /\ rules[k].has_actions
    /\ rules[k].actions # <<>>

\* C3: in execute_rule_actions a handler is invoked only for a rule that
\* matched and declares actions; such a rule gets one action outcome per
\* declared action; any other rule gets an empty action-outcome sequence, and
\* a rule whose evaluation failed is recorded unmatched with the error.
C3_DispatchIffMatched ==
    op = "execute_rule_actions" =>
        /\ \A n \in 1..Len(invoked) : Fires(invoked[n].rule)
        /\ \A k \in 1..Len(results) :
             LET r == jsonLogic(rules[k].rule, seen[k]) IN
             /\ Fires(k) =>
                  /\ results[k].matched
                  /\ Len(results[k].actions_executed) = Len(rules[k].actions)
             /\ ~Fires(k) =>
                  /\ results[k].actions_executed = <<>>
                  /\ \A n \in 1..Len(invoked) : invoked[n].rule # k
             /\ r.raised =>
                  /\ ~results[k].matched
                  /\ results[k].rule_error = r.msg
             /\ (~r.raised /\ ~PyBool(r.value)) => ~results[k].matched

\* a returned batch with a rule that declares actions and failed to evaluate
\* (no outcomes), and a matched rule whose actions were all dispatched
C3_Witness ==
    /\ Returned
    /\ op = "execute_rule_actions"
    /\ Len(results) = 2
    /\ results[1].rule_error # None
    /\ rules[1].actions # <<>>
    /\ results[1].actions_executed = <<>>
    /\ results[2].matched
    /\ Len(results[2].actions_executed) = 2
    /\ invoked # <<>>

\* C4: a well-formed ActionId whose registry key or handler name is not
\* registered never has a success outcome.
C4_UnregisteredFails ==
    \A k \in 1..Len(actions_executed) :
        Unregistered(actions_executed[k].action)
            => FailureOutcome(actions_executed[k])

\* C5: a handler that never returns is timed out: unless the call is
\* cancelled, it still returns.
C5_HangingHandlerTimesOut ==
    (pc = "handler" /\ handler = "hang" /\ ~cancelled.signalled)
        ~> (Returned \/ cancelled.signalled)

CancelledOutcome(r) ==
    IF op = "evaluate_ruleset" THEN r.error = "cancelled"
    ELSE r.rule_error = "cancelled"

\* C6: a batch call that a cancellation reached while rules were still to be
\* started returns one outcome per rule, and every rule that had not started
\* has a "cancelled" outcome.
C6_CancelledRulesReported ==
    (cancelled.signalled /\ cancelled.started < Len(rules)
       /\ pc \in {"done", "raised"}) =>
        /\ Returned
        /\ Len(results) = Len(rules)
        /\ \A k \in (cancelled.started + 1)..Len(rules) :
             CancelledOutcome(results[k])

Accepted(s) ==
    \A n \in 1..Len(report.action_errors) : report.action_errors[n].action # s

\* C7: validate_rule accepts an action id exactly when it splits into two
\* non-empty segments, and actions_valid is false as soon as one id does not.
C7_AcceptsIffTwoNonEmptySegments ==
    (Returned /\ op = "validate_rule") =>
        /\ \A k \in 1..Len(action_specs) :
             Accepted(action_specs[k]) <=> WellFormedId(action_specs[k])
        /\ report.actions_valid <=>
             \A k \in 1..Len(action_specs) : WellFormedId(action_specs[k])

IsDefective(s) == ~WellFormedId(s)
ReportedIds == [n \in 1..Len(report.action_errors) |-> report.action_errors[n].action]

\* C8: validate_rule's report holds the rule verdict whatever the action ids
\* are, one entry per defective action id in input order whatever the rule
\* verdict is, and actions_valid exactly when there is no entry.
C8_CombinedReport ==
    (Returned /\ op = "validate_rule") =>
        /\ report.rule_valid = ~jsonLogic(expr, EmptyData).raised
        /\ ReportedIds = SelectSeq(action_specs, IsDefective)
        /\ report.actions_valid <=> (report.action_errors = <<>>)

\* what of C8 the code does keep: nothing is skipped after a first defect;
\* every id the lexical test rejects has its entry, in input order
ReportNotFailFast ==
    (Returned /\ op = "validate_rule") =>
        /\ report.rule_valid = ~jsonLogic(expr, EmptyData).raised
        /\ ReportedIds = SelectSeq(action_specs, BadFormat)
        /\ report.actions_valid <=> (report.action_errors = <<>>)

\* C9: evaluate_rule and evaluate_ruleset invoke no handler and produce no
\* action outcome.
C9_EvaluateOnlyNeverDispatches ==
    op \in {"evaluate_rule", "evaluate_ruleset"} =>
        /\ invoked = <<>>
        /\ actions_executed = <<>>
        /\ pc \notin {"dispatch", "handler"}
        /\ \A k \in 1..Len(results) :
             DOMAIN results[k] = {"rule_name", "matched", "error"}

\* evaluate_ruleset returned with a matched rule that declares actions
C9_Witness ==
    /\ Returned
    /\ op = "evaluate_ruleset"
    /\ \E k \in 1..Len(results) :
         /\ results[k].matched
         /\ rules[k].has_actions
         /\ rules[k].actions # <<>>

ListedFalsy(v) ==
    \/ v.t = "null"
    \/ v.t \in {"bool", "num", "str", "seq"} /\ v.n = 0

PythonFalsy(v) == ListedFalsy(v) \/ (v.t = "map" /\ v.n = 0)

\* C10 as stated: evaluate_rule returns (truthiness, no error) or
\* (false, error), with null, zero, empty sequence, empty string and false
\* falsy and everything else truthy.
C10_ListedTruthiness ==
    (Returned /\ op = "evaluate_rule") =>
        LET r == jsonLogic(expr, data) IN
        /\ r.raised => (~single.matched /\ single.error # None)
        /\ ~r.raised => (single.error = None /\ (single.matched <=> ~ListedFalsy(r.value)))
        /\ single.matched => single.error = None

\* C10 amended: the same, with the empty mapping falsy as well.
C10_PythonTruthiness ==
    (Returned /\ op = "evaluate_rule") =>
        LET r == jsonLogic(expr, data) IN
        /\ r.raised => (~single.matched /\ single.error # None)
        /\ ~r.raised => (single.error = None /\ (single.matched <=> ~PythonFalsy(r.value)))
        /\ single.matched => single.error = None

\* evaluate_rule returned for a rule whose value is the empty mapping
C10_Witness ==
    /\ Returned
    /\ op = "evaluate_rule"
    /\ ~jsonLogic(expr, data).raised
    /\ jsonLogic(expr, data).value = [t |-> "map", n |-> 0]
    /\ ~single.matched
    /\ single.error = None

\* C11: during execute_rule_actions the data context keeps the content the
\* caller supplied: every rule is evaluated against it and every handler is
\* invoked with it, whatever earlier handlers did.
C11_ContextNeverChanged ==
    op = "execute_rule_actions" =>
        /\ data = supplied
        /\ \A k \in 1..Len(seen) : seen[k] = supplied
        /\ \A n \in 1..Len(invoked) : invoked[n].data = supplied

\* what of C11 the code does keep: a handler is handed the dictionary the
\* loop itself reads, neither a subset nor a copy, so as long as no handler
\* has assigned into it every evaluation and invocation sees the caller's
\* content
ContextSharedNotCopied ==
    (op = "execute_rule_actions"
       /\ \A n \in 1..Len(invoked) : invoked[n].behaviour # "mutate") =>
        /\ data = supplied
        /\ \A k \in 1..Len(seen) : seen[k] = supplied
        /\ \A n \in 1..Len(invoked) : invoked[n].data = supplied

ErrorOf(r) == IF op = "evaluate_ruleset" THEN r.error ELSE r.rule_error

Malformed == \E k \in 1..Len(rules) : ~rules[k].well_formed

\* C13: a batch call (evaluate_ruleset or execute_rule_actions) ends by raising
\* to its caller only when some definition of its input is malformed, and then
\* no rule has been evaluated and no action dispatched; a call whose
\* definitions are all well-formed never ends by raising
C13_OnlyMalformedInputPropagates ==
    (op \in BatchOps /\ rules # <<>> /\ pc = "raised") =>
        /\ Malformed
        /\ results = <<>>
        /\ seen = <<>>
        /\ invoked = <<>>

\* what the conversion loop does keep: a malformed definition, wherever it
\* sits, ends the call before the first evaluation and the first dispatch, and
\* a call that raised without having been cancelled had a malformed definition
MalformedRaisesBeforeAnyWork ==
    op \in BatchOps =>
        /\ Malformed =>
             /\ pc \in {"convert", "raised"}
             /\ results = <<>> /\ seen = <<>> /\ invoked = <<>>
        /\ (pc = "raised" /\ ~cancelled.signalled) => Malformed
====
